---- MODULE Spec2Model ----
(***************************************************************************)
(* Model of iphonemeloenperspectiva: main (main.go) fans one queryForSite  *)
(* goroutine out per Mercado Libre site, each of which starts a nested     *)
(* goroutine calling fetchCurrencyRate; the outcomes travel over the       *)
(* unbuffered resultChannel to the anonymous result-processing goroutine,  *)
(* which main stops through a cancelable context once wg.Wait returned.    *)
(***************************************************************************)
EXTENDS Integers, Sequences, FiniteSets, TLC

\* ------------------------------------------------------------------ bounds
\* Largest number of sites fetchSites returns in the model.
MaxSites == 2

\* shopspring/decimal's DivisionPrecision (digits after the point kept by Div).
\* The library's value is 16; the model keeps fewer digits so that coefficients
\* stay inside TLC's integers.
DivisionPrecision == 2

\* Largest capacity of resultChannel looked at beside the capacity 0 that
\* main.go:34 gives it.
MaxCap == 1

\* Largest number of rows of the table #billetes in a page of the bank.
MaxRows == 2

SiteIds == 1..MaxSites

\* ---------------------------------------------------------------- decimals
\* decimal.Decimal: value = coef * 10^exp.
Dec(c, e) == [coef |-> c, exp |-> e]

\* decimal.Zero
Zero == Dec(0, 0)

RECURSIVE Pow10(_)
Pow10(n) == IF n <= 0 THEN 1 ELSE 10 * Pow10(n - 1)

\* A JSON number as written in a response body: mant / 10^frac (999.00 is
\* mant 99900, frac 2).
Float(m, f) == [mant |-> m, frac |-> f]

\* decimal.NewFromFloat: the shortest decimal that denotes the float, so the
\* trailing zeros of the literal are dropped.
RECURSIVE NewFromFloat(_)
NewFromFloat(x) ==
    IF x.mant = 0 THEN Dec(0, 0)
    ELSE IF x.frac > 0 /\ x.mant % 10 = 0
         THEN NewFromFloat(Float(x.mant \div 10, x.frac - 1))
         ELSE Dec(x.mant, 0 - x.frac)

\* Decimal.Mul: exact.
Mul(a, b) == Dec(a.coef * b.coef, a.exp + b.exp)

\* Decimal.Div panics ("decimal division by 0") when the divisor is zero.
DivPanics(a, b) == b.coef = 0

\* Div as it would be if the quotient were rounded to a whole number.
DivWhole(a, b) ==
    LET s   == a.exp - b.exp
        num == IF s >= 0 THEN a.coef * Pow10(s) ELSE a.coef
        den == IF s >= 0 THEN b.coef ELSE b.coef * Pow10(0 - s)
        q   == num \div den
        rem == num % den
    IN  Dec(IF 2 * rem >= den THEN q + 1 ELSE q, 0)

\* Decimal.Div = DivRound(d2, DivisionPrecision): the quotient rounded half
\* away from zero to DivisionPrecision digits (operands are non-negative here).
Div(a, b) ==
    LET s   == a.exp - b.exp + DivisionPrecision
        num == IF s >= 0 THEN a.coef * Pow10(s) ELSE a.coef
        den == IF s >= 0 THEN b.coef ELSE b.coef * Pow10(0 - s)
        q   == num \div den
        rem == num % den
    IN  Dec(IF 2 * rem >= den THEN q + 1 ELSE q, 0 - DivisionPrecision)

\* ------------------------------------------------------------------ inputs
usdCurrencyCode == "USD"

\* mlSite.DefaultCurrencyID of the sites fetchSites returns.
DefaultCurrencyID(s) == IF s = 1 THEN "USD" ELSE IF s = 2 THEN "BRL" ELSE "ARS"

\* ResultadoML entries the search endpoint answers with: a listing priced in
\* USD, and one priced in the currency of the site.
ListingUSD == [Price |-> Float(99900, 2), Title |-> "a", CurrencyID |-> "USD"]
ListingLocal(s) ==
    [Price |-> Float(500000, 2), Title |-> "b", CurrencyID |-> DefaultCurrencyID(s)]

\* ResultadosML.Results of a well-formed body, in the order the endpoint sent.
ResultLists(s) == { <<>>, <<ListingUSD>>, <<ListingLocal(s), ListingUSD>> }

\* What the search of one site comes to: queryML fails (transport error or a
\* status other than 200), the body cannot be read, the body does not
\* unmarshal, or a well-formed body with a result list.
QueryErrors == { "querying mercado libre",
                 "reading mercado libre response body",
                 "unmarshaling mercado libre response body" }
QueryResults(s) ==
    { [err |-> e, Results |-> <<>>] : e \in QueryErrors }
    \cup { [err |-> "nil", Results |-> l] : l \in ResultLists(s) }

\* conversionRatio.Ratio of a well-formed answer of the conversion endpoint
\* for a currency: its ratio to USD, or 0 when the body carries no ratio
\* ({} and {"ratio": 0} both unmarshal to 0).
MarketRatio(c) ==
    IF c = "USD" THEN Float(100, 2) ELSE IF c = "BRL" THEN Float(19, 2) ELSE Float(7, 2)
Ratios(c) == { Float(0, 0), MarketRatio(c) }

\* conversionRatio.Decimal (mercadolibre.go:157-159)
RatioDecimal(f) == NewFromFloat(f)

\* What fetchCurrencyRate returns: (decimal.Zero, err) or (ratio.Decimal(), nil).
RateResults(c) ==
    { [ratio |-> Zero, err |-> "currency"] }
    \cup { [ratio |-> RatioDecimal(f), err |-> "nil"] : f \in Ratios(c) }

\* What fetchSites returns (mercadolibre.go:29-61): (nil, err) when the request
\* fails, the status is not 200, the body cannot be read or does not unmarshal;
\* otherwise the sites and a nil error.
SitesErrors == { "querying mercado libre sites endpoint",
                 "requesting to mercado libre sites list",
                 "reading mercado libre sites list body",
                 "unmarshaling mercado libre sites list" }
SitesResults ==
    { [err |-> e, n |-> 0] : e \in SitesErrors }
    \cup { [err |-> "nil", n |-> n] : n \in 0..MaxSites }

\* ------------------------------------------------- dolarizame: its inputs
\* Decimal.Add: exact, at the smaller of the two exponents.
Add(a, b) ==
    LET e == IF a.exp < b.exp THEN a.exp ELSE b.exp
    IN  Dec(a.coef * Pow10(a.exp - e) + b.coef * Pow10(b.exp - e), e)

\* Texts are sequences of characters.
DigitOf == [c \in {"0", "1", "2", "3", "4", "5", "6", "7", "8", "9"} |->
              CASE c = "0" -> 0 [] c = "1" -> 1 [] c = "2" -> 2 [] c = "3" -> 3
                [] c = "4" -> 4 [] c = "5" -> 5 [] c = "6" -> 6 [] c = "7" -> 7
                [] c = "8" -> 8 [] c = "9" -> 9]

\* strings.Replace(t, ",", ".", -1)
ReplaceCommas(t) == [k \in 1..Len(t) |-> IF t[k] = "," THEN "." ELSE t[k]]

\* decimal.NewFromString, for texts without sign or exponent: at most one
\* point, and what is left without it must be a non-empty run of digits.
Points(t) == { k \in 1..Len(t) : t[k] = "." }
IntString(t) == SelectSeq(t, LAMBDA c : c # ".")
NewFromStringFails(t) ==
    \/ Cardinality(Points(t)) > 1
    \/ IntString(t) = <<>>
    \/ \E k \in 1..Len(IntString(t)) : IntString(t)[k] \notin DOMAIN DigitOf

RECURSIVE ToInt(_)
ToInt(d) ==
    IF d = <<>> THEN 0
    ELSE 10 * ToInt(SubSeq(d, 1, Len(d) - 1)) + DigitOf[d[Len(d)]]

NewFromString(t) ==
    Dec(ToInt(IntString(t)),
        IF Points(t) = {} THEN 0 ELSE 0 - (Len(t) - (CHOOSE k \in Points(t) : TRUE)))

\* part_000:14
USD == << "D", "o", "l", "a", "r", " ", "U", ".", "S", ".", "A" >>

\* A td of the table: whether it has the class "tit", and its text.
Td(tit, text) == [tit |-> tit, text |-> text]

\* The texts a rate cell of the page may show: nothing, something that is not
\* a number, 0, and a rate written with the decimal comma.
RateTexts == { <<>>, << "n", "/", "a" >>, << "0" >>, << "6", "0", ",", "5" >> }

\* The rows of #billetes: the row of the dollar with its title and none, one
\* or both of its rates, and the row of another currency.
DollarRows ==
    { << Td(TRUE, USD) >> }
    \cup { << Td(TRUE, USD), Td(FALSE, b) >> : b \in RateTexts }
    \cup { << Td(TRUE, USD), Td(FALSE, b), Td(FALSE, v) >> : b, v \in RateTexts }
EuroRow == << Td(TRUE, << "E", "u", "r", "o" >>), Td(FALSE, << "7" >>), Td(FALSE, << "8" >>) >>
Rows == DollarRows \cup { EuroRow }

\* The tables a page may hold: up to MaxRows rows.
RECURSIVE PagesOf(_)
PagesOf(n) ==
    IF n = 0 THEN { <<>> }
    ELSE PagesOf(n - 1) \cup { Append(p, w) : p \in { q \in PagesOf(n - 1) : Len(q) = n - 1 }, w \in Rows }
Pages == PagesOf(MaxRows)

\* What http.Get(bnaURL) and the reading of its body come to: the request
\* fails, a status other than 200, a body that cannot be read, or a page.
NoResponse == [kind |-> "none", page |-> <<>>]
Responses ==
    { [kind |-> k, page |-> <<>>] : k \in {"failed", "status", "unreadable"} }
    \cup { [kind |-> "page", page |-> p] : p \in Pages }

\* The argument ars of the call.
ArsAmount == Dec(1210, 0)

\* What dolarizame returns: (decimal, error).
NoReturn == [amount |-> Zero, err |-> "none"]
Return(a, e) == [amount |-> a, err |-> e]

\* ------------------------------------------------------------------- state
VARIABLES
    exit,             \* "running", or how the process ended
    mainPc,           \* position of main
    sitesErr,         \* err of main, as fetchSites returned it
    sites,            \* len(sites): the sites are 1..sites
    next,             \* loop variable i of the spawning loop
    wg,               \* counter of wg
    waitResultFetch,  \* counter of waitResultFetch
    ctxDone,          \* ctx is cancelled
    results,          \* the results slice
    stdout,           \* what main printed: failed sites, then the results
    chanCap,          \* capacity of resultChannel
    buffer,           \* the values buffered in resultChannel
    cpc,              \* position of the result-processing goroutine
    r,                \* the value it received from resultChannel
    wpc,              \* position of each queryForSite goroutine
    search,           \* how its search ended: "error", "empty" or "listing"
    resultML,         \* its resultML.Results
    wout,             \* the siteSearchResult it is sending
    sent,             \* number of sends it completed on resultChannel
    lpc,              \* position of each nested currency goroutine
    currencyWait,     \* counter of each currencyWait
    currencyRatio,    \* the shared currencyRatio
    currencyError,    \* the shared currencyError
    bpc,              \* position of a call of dolarizame
    bres,             \* what http.Get(bnaURL) came to
    brow,             \* the row of #billetes the scan is at
    bcell,            \* the td of that row the scan is at
    dollar,           \* the flag of extractUSD
    buy,              \* the text taken as buying rate
    sell,             \* the text taken as selling rate
    bret              \* what dolarizame returned

vars == << exit, mainPc, sitesErr, sites, next, wg, waitResultFetch, ctxDone, results,
           stdout, cpc, r, wpc, search, resultML, wout, sent, lpc,
           currencyWait, currencyRatio, currencyError, chanCap, buffer,
           bpc, bres, brow, bcell, dollar, buy, sell, bret >>

mainVars == << mainPc, sitesErr, sites, next, wg, waitResultFetch, ctxDone >>
collectorVars == << cpc, r, results >>
workerVars == << wpc, search, resultML, wout, sent >>
lookupVars == << lpc, currencyWait, currencyRatio, currencyError >>
chanVars == << chanCap, buffer >>
bankVars == << bpc, bres, brow, bcell, dollar, buy, sell, bret >>
programVars == << exit, mainVars, stdout, collectorVars, workerVars, lookupVars, chanVars >>

\* The zero siteSearchResult.
ZeroResult ==
    [site |-> 0, price |-> Zero, priceUSD |-> Zero, ratio |-> Zero,
     item |-> "", err |-> "nil"]

\* siteSearchResult{site: site, err: err}
Failure(s, e) == [ZeroResult EXCEPT !.site = s, !.err = e]

\* The state main starts in, but for the capacity of resultChannel.
InitState ==
    /\ exit = "running"
    /\ mainPc = "fetchSites"
    /\ sitesErr = "nil"
    /\ sites = 0
    /\ next = 1
    /\ wg = 0
    /\ waitResultFetch = 0
    /\ ctxDone = FALSE
    /\ results = <<>>
    /\ stdout = <<>>
    /\ cpc = "none"
    /\ r = ZeroResult
    /\ wpc = [s \in SiteIds |-> "none"]
    /\ search = [s \in SiteIds |-> "none"]
    /\ resultML = [s \in SiteIds |-> <<>>]
    /\ wout = [s \in SiteIds |-> ZeroResult]
    /\ sent = [s \in SiteIds |-> 0]
    /\ lpc = [s \in SiteIds |-> "none"]
    /\ currencyWait = [s \in SiteIds |-> 0]
    /\ currencyRatio = [s \in SiteIds |-> Zero]
    /\ currencyError = [s \in SiteIds |-> "nil"]
    /\ buffer = <<>>
    /\ bpc = "get"
    /\ bres = NoResponse
    /\ brow = 0 /\ bcell = 0
    /\ dollar = FALSE
    /\ buy = <<>> /\ sell = <<>>
    /\ bret = NoReturn

\* main.go:34: make(chan siteSearchResult), a channel without buffer.
Init == InitState /\ chanCap = 0

\* The same program with resultChannel made with any capacity up to MaxCap.
InitAnyCap == InitState /\ chanCap \in 0..MaxCap

\* -------------------------------------------------------------------- main
Running == exit = "running"

\* SitesFailed as it would be if main did not look at the error of fetchSites.
SitesFailedNever(res) == FALSE

\* main.go:22: err != nil
SitesFailed(res) == res.err # "nil"

\* main.go:21-24: fetchSites failed, log.Fatalf ends the process.
FetchSitesFail ==
    /\ Running /\ mainPc = "fetchSites"
    /\ UNCHANGED chanVars
    /\ UNCHANGED bankVars
    /\ \E res \in SitesResults :
        /\ SitesFailed(res)
        /\ sitesErr' = res.err
    /\ mainPc' = "fatal"
    /\ exit' = "fatal"
    /\ UNCHANGED << sites, next, wg, waitResultFetch, ctxDone, stdout >>
    /\ UNCHANGED << collectorVars, workerVars, lookupVars >>

\* main.go:21-34: fetchSites returned its sites; results, wg.Add(len(sites))
\* and the unbuffered resultChannel are made.
FetchSitesOk ==
    /\ Running /\ mainPc = "fetchSites"
    /\ UNCHANGED chanVars
    /\ UNCHANGED bankVars
    /\ \E res \in SitesResults :
        /\ ~SitesFailed(res)
        /\ sitesErr' = res.err
        /\ sites' = res.n
        /\ wg' = wg + res.n
    /\ results' = <<>>
    /\ next' = 1
    /\ mainPc' = "spawn"
    /\ UNCHANGED << exit, waitResultFetch, ctxDone, stdout, cpc, r >>
    /\ UNCHANGED << workerVars, lookupVars >>

\* main.go:37-39: go queryForSite(searchTerms, sites[i], wg, resultChannel)
Spawn ==
    /\ Running /\ mainPc = "spawn" /\ next <= sites
    /\ UNCHANGED chanVars
    /\ UNCHANGED bankVars
    /\ wpc' = [wpc EXCEPT ![next] = "start"]
    /\ next' = next + 1
    /\ UNCHANGED sitesErr
    /\ UNCHANGED << exit, mainPc, sites, wg, waitResultFetch, ctxDone, stdout >>
    /\ UNCHANGED << collectorVars, search, resultML, wout, sent, lookupVars >>

\* main.go:42-65: waitResultFetch.Add(1), context.WithCancel, and the
\* result-processing goroutine is started.
StartCollector ==
    /\ Running /\ mainPc = "spawn" /\ next > sites
    /\ UNCHANGED chanVars
    /\ UNCHANGED bankVars
    /\ waitResultFetch' = waitResultFetch + 1
    /\ ctxDone' = FALSE
    /\ cpc' = "select"
    /\ mainPc' = "wgWait"
    /\ UNCHANGED sitesErr
    /\ UNCHANGED << exit, sites, next, wg, stdout, r, results >>
    /\ UNCHANGED << workerVars, lookupVars >>

\* WgWait as it would be if main did not block on wg before done().
WgWaitNoBlock ==
    /\ Running /\ mainPc = "wgWait"
    /\ UNCHANGED chanVars
    /\ UNCHANGED bankVars
    /\ mainPc' = "done"
    /\ UNCHANGED sitesErr
    /\ UNCHANGED << exit, sites, next, wg, waitResultFetch, ctxDone, stdout >>
    /\ UNCHANGED << collectorVars, workerVars, lookupVars >>

\* WgWait as it would be if wg.Wait() returned only after some worker had
\* called Done.
WgWaitNeedsWorker ==
    /\ Running /\ mainPc = "wgWait"
    /\ UNCHANGED chanVars
    /\ UNCHANGED bankVars
    /\ wg = 0 /\ sites > 0
    /\ mainPc' = "done"
    /\ UNCHANGED sitesErr
    /\ UNCHANGED << exit, sites, next, wg, waitResultFetch, ctxDone, stdout >>
    /\ UNCHANGED << collectorVars, workerVars, lookupVars >>

\* main.go:69: wg.Wait() returns once the counter is zero.
WgWait ==
    /\ Running /\ mainPc = "wgWait"
    /\ UNCHANGED chanVars
    /\ UNCHANGED bankVars
    /\ wg = 0
    /\ mainPc' = "done"
    /\ UNCHANGED sitesErr
    /\ UNCHANGED << exit, sites, next, wg, waitResultFetch, ctxDone, stdout >>
    /\ UNCHANGED << collectorVars, workerVars, lookupVars >>

\* main.go:72: done() cancels ctx.
Done ==
    /\ Running /\ mainPc = "done"
    /\ UNCHANGED chanVars
    /\ UNCHANGED bankVars
    /\ ctxDone' = TRUE
    /\ mainPc' = "waitResultFetch"
    /\ UNCHANGED sitesErr
    /\ UNCHANGED << exit, sites, next, wg, waitResultFetch, stdout >>
    /\ UNCHANGED << collectorVars, workerVars, lookupVars >>

\* WaitResultFetch as it would be if main did not block on waitResultFetch
\* before reading results.
WaitResultFetchNoBlock ==
    /\ Running /\ mainPc = "waitResultFetch"
    /\ UNCHANGED chanVars
    /\ UNCHANGED bankVars
    /\ mainPc' = "print"
    /\ UNCHANGED sitesErr
    /\ UNCHANGED << exit, sites, next, wg, waitResultFetch, ctxDone, stdout >>
    /\ UNCHANGED << collectorVars, workerVars, lookupVars >>

\* main.go:75: waitResultFetch.Wait() returns once the counter is zero.
WaitResultFetch ==
    /\ Running /\ mainPc = "waitResultFetch"
    /\ UNCHANGED chanVars
    /\ UNCHANGED bankVars
    /\ waitResultFetch = 0
    /\ mainPc' = "print"
    /\ UNCHANGED sitesErr
    /\ UNCHANGED << exit, sites, next, wg, waitResultFetch, ctxDone, stdout >>
    /\ UNCHANGED << collectorVars, workerVars, lookupVars >>

\* The lines main.go:79-81 print for a result, kept as the site they name.
ResultLine(v) == [kind |-> "result", site |-> v.site]

\* main.go:78-83: main reads results, prints them and returns, which ends the
\* process and every goroutine still running.
PrintResults ==
    /\ Running /\ mainPc = "print"
    /\ UNCHANGED chanVars
    /\ UNCHANGED bankVars
    /\ stdout' = stdout \o [k \in 1..Len(results) |-> ResultLine(results[k])]
    /\ mainPc' = "returned"
    /\ exit' = "ok"
    /\ UNCHANGED sitesErr
    /\ UNCHANGED << sites, next, wg, waitResultFetch, ctxDone >>
    /\ UNCHANGED << collectorVars, workerVars, lookupVars >>

\* ------------------------------------------------------------ queryForSite
\* WorkerStart as it would be if the worker issued its search without having
\* started the nested goroutine.
WorkerStartNoLookup(s) ==
    /\ Running /\ wpc[s] = "start"
    /\ UNCHANGED chanVars
    /\ UNCHANGED bankVars
    /\ wpc' = [wpc EXCEPT ![s] = "query"]
    /\ UNCHANGED << exit, mainVars, stdout, collectorVars, search, resultML, wout,
                    sent, lookupVars >>

\* mercadolibre.go:209-224: defer callerWaiting.Done(), currencyWait.Add(1) and
\* the nested goroutine is started, before the search is issued.
WorkerStart(s) ==
    /\ Running /\ wpc[s] = "start"
    /\ UNCHANGED chanVars
    /\ UNCHANGED bankVars
    /\ currencyWait' = [currencyWait EXCEPT ![s] = @ + 1]
    /\ lpc' = [lpc EXCEPT ![s] = "fetching"]
    /\ wpc' = [wpc EXCEPT ![s] = "query"]
    /\ UNCHANGED << exit, mainVars, stdout, collectorVars, search, resultML, wout,
                    sent, currencyRatio, currencyError >>

\* NoResults as it would be if the length check never fired.
NoResultsNever(l) == FALSE

\* mercadolibre.go:260: the check that stops a worker whose result list is empty.
NoResults(l) == Len(l) = 0

\* How the search of a site ended, from what the endpoint answered.
SearchKind(q) ==
    IF q.err # "nil" THEN "error"
    ELSE IF Len(q.Results) = 0 THEN "empty" ELSE "listing"

\* mercadolibre.go:227-266: queryML, ReadAll and Unmarshal; each failure and an
\* empty result list make the worker send siteSearchResult{site, err}, anything
\* else takes it to currencyWait.Wait().
QueryML(s) ==
    /\ Running /\ wpc[s] = "query"
    /\ UNCHANGED chanVars
    /\ UNCHANGED bankVars
    /\ \E q \in QueryResults(s) :
        /\ search' = [search EXCEPT ![s] = SearchKind(q)]
        /\ IF q.err # "nil"
           THEN /\ wout' = [wout EXCEPT ![s] = Failure(s, q.err)]
                /\ wpc' = [wpc EXCEPT ![s] = "send"]
                /\ UNCHANGED resultML
           ELSE IF NoResults(q.Results)
           THEN /\ wout' = [wout EXCEPT ![s] =
                                Failure(s, "results not found in response")]
                /\ wpc' = [wpc EXCEPT ![s] = "send"]
                /\ resultML' = [resultML EXCEPT ![s] = q.Results]
           ELSE /\ resultML' = [resultML EXCEPT ![s] = q.Results]
                /\ wpc' = [wpc EXCEPT ![s] = "currencyWait"]
                /\ UNCHANGED wout
    /\ UNCHANGED << exit, mainVars, stdout, collectorVars, sent, lookupVars >>

\* ResultadoML.GetPrice (mercadolibre.go:122-124)
GetPrice(m) == NewFromFloat(m.Price)

\* FirstResult as it would be if the last entry of the list were taken.
LastResult(l) == l[Len(l)]

\* resultML.Results[0]
FirstResult(l) == l[1]

\* DividesByRatio as it would be with the two branches taken the wrong way round.
DividesByRatioSwapped(m) == m.CurrencyID # usdCurrencyCode

\* mercadolibre.go:289-291: the branch that divides by currencyRatio.
DividesByRatio(m) == m.CurrencyID = usdCurrencyCode

\* mercadolibre.go:283-304: the siteSearchResult of a search that succeeded.
Success(s, l, ratio) ==
    LET mlResult == FirstResult(l)
        priceUSD == IF DividesByRatio(mlResult) THEN GetPrice(mlResult)
                    ELSE Mul(GetPrice(mlResult), ratio)
        price    == IF DividesByRatio(mlResult) THEN Div(priceUSD, ratio)
                    ELSE GetPrice(mlResult)
    IN  [site |-> s, price |-> price, priceUSD |-> priceUSD, ratio |-> ratio,
         item |-> mlResult.Title, err |-> "nil"]

\* CurrencyWait as it would be if currencyWait.Wait() returned at once.
CurrencyWaitNoBlock(s) ==
    /\ Running /\ wpc[s] = "currencyWait"
    /\ UNCHANGED chanVars
    /\ UNCHANGED bankVars
    /\ IF currencyError[s] # "nil"
       THEN /\ wout' = [wout EXCEPT ![s] = Failure(s, "getting currency ratio")]
            /\ wpc' = [wpc EXCEPT ![s] = "send"]
       ELSE IF /\ DividesByRatio(FirstResult(resultML[s]))
               /\ DivPanics(GetPrice(FirstResult(resultML[s])), currencyRatio[s])
       THEN /\ wpc' = [wpc EXCEPT ![s] = "panicking"]
            /\ UNCHANGED wout
       ELSE /\ wout' = [wout EXCEPT ![s] = Success(s, resultML[s], currencyRatio[s])]
            /\ wpc' = [wpc EXCEPT ![s] = "send"]
    /\ UNCHANGED << exit, mainVars, stdout, collectorVars, search, resultML, sent,
                    lookupVars >>

\* mercadolibre.go:269-295: currencyWait.Wait() returns once the nested
\* goroutine is done; a currency error makes the worker send a failure; the
\* division of a price in USD by a zero ratio panics, which unwinds to the
\* deferred callerWaiting.Done(); otherwise the result is ready to be sent.
CurrencyWait(s) ==
    /\ Running /\ wpc[s] = "currencyWait"
    /\ UNCHANGED chanVars
    /\ UNCHANGED bankVars
    /\ currencyWait[s] = 0
    /\ IF currencyError[s] # "nil"
       THEN /\ wout' = [wout EXCEPT ![s] = Failure(s, "getting currency ratio")]
            /\ wpc' = [wpc EXCEPT ![s] = "send"]
       ELSE IF /\ DividesByRatio(FirstResult(resultML[s]))
               /\ DivPanics(GetPrice(FirstResult(resultML[s])), currencyRatio[s])
       THEN /\ wpc' = [wpc EXCEPT ![s] = "panicking"]
            /\ UNCHANGED wout
       ELSE /\ wout' = [wout EXCEPT ![s] = Success(s, resultML[s], currencyRatio[s])]
            /\ wpc' = [wpc EXCEPT ![s] = "send"]
    /\ UNCHANGED << exit, mainVars, stdout, collectorVars, search, resultML, sent,
                    lookupVars >>

\* Send as it would be if every send came after currencyWait.Wait().
SendAfterLookup(s) ==
    /\ Running /\ wpc[s] = "send"
    /\ UNCHANGED chanVars
    /\ UNCHANGED bankVars
    /\ chanCap = 0
    /\ currencyWait[s] = 0
    /\ cpc = "select"
    /\ r' = wout[s]
    /\ cpc' = "handle"
    /\ sent' = [sent EXCEPT ![s] = @ + 1]
    /\ wout' = [wout EXCEPT ![s] = ZeroResult]
    /\ wpc' = [wpc EXCEPT ![s] = "deferred"]
    /\ UNCHANGED << exit, mainVars, stdout, results, search, resultML, lookupVars >>

\* mercadolibre.go:230,241,253,261,272,298 with main.go:54: a send on the
\* unbuffered resultChannel completes together with the receive of the
\* result-processing goroutine, which is at its select; the value sent is a
\* temporary of the worker.
Send(s) ==
    /\ Running /\ wpc[s] = "send"
    /\ UNCHANGED chanVars
    /\ UNCHANGED bankVars
    /\ chanCap = 0
    /\ cpc = "select"
    /\ r' = wout[s]
    /\ cpc' = "handle"
    /\ sent' = [sent EXCEPT ![s] = @ + 1]
    /\ wout' = [wout EXCEPT ![s] = ZeroResult]
    /\ wpc' = [wpc EXCEPT ![s] = "deferred"]
    /\ UNCHANGED << exit, mainVars, stdout, results, search, resultML, lookupVars >>

\* The same sends on a resultChannel that has a buffer: the send completes as
\* soon as the buffer has room, whatever the receiver is doing.
BufferedSend(s) ==
    /\ Running /\ wpc[s] = "send"
    /\ chanCap > 0 /\ Len(buffer) < chanCap
    /\ buffer' = Append(buffer, wout[s])
    /\ sent' = [sent EXCEPT ![s] = @ + 1]
    /\ wout' = [wout EXCEPT ![s] = ZeroResult]
    /\ wpc' = [wpc EXCEPT ![s] = "deferred"]
    /\ UNCHANGED << exit, mainVars, stdout, collectorVars, search, resultML,
                    lookupVars, chanCap, bankVars >>

\* DeferredDone as it would be if Done were called before a return only, and
\* not while the worker panics.
DoneOnReturnOnly(s) ==
    /\ Running /\ wpc[s] \in {"deferred", "panicking"}
    /\ UNCHANGED chanVars
    /\ UNCHANGED bankVars
    /\ wg' = IF wpc[s] = "panicking" THEN wg ELSE wg - 1
    /\ wpc' = [wpc EXCEPT ![s] = IF wpc[s] = "panicking" THEN "panicked" ELSE "returned"]
    /\ resultML' = [resultML EXCEPT ![s] = <<>>]
    /\ UNCHANGED sitesErr
    /\ UNCHANGED << exit, mainPc, sites, next, waitResultFetch, ctxDone, stdout >>
    /\ UNCHANGED << collectorVars, search, wout, sent, lookupVars >>

\* mercadolibre.go:209: the deferred callerWaiting.Done() runs when the worker
\* returns and when it panics; the locals of the worker end with it.
DeferredDone(s) ==
    /\ Running /\ wpc[s] \in {"deferred", "panicking"}
    /\ UNCHANGED chanVars
    /\ UNCHANGED bankVars
    /\ wg' = wg - 1
    /\ wpc' = [wpc EXCEPT ![s] = IF wpc[s] = "panicking" THEN "panicked" ELSE "returned"]
    /\ resultML' = [resultML EXCEPT ![s] = <<>>]
    /\ UNCHANGED sitesErr
    /\ UNCHANGED << exit, mainPc, sites, next, waitResultFetch, ctxDone, stdout >>
    /\ UNCHANGED << collectorVars, search, wout, sent, lookupVars >>

\* A panic nobody recovers: once the deferred calls of the goroutine have run,
\* the Go runtime prints the panic and ends the process with status 2. The
\* other goroutines keep running until it does.
Crash ==
    /\ Running
    /\ UNCHANGED chanVars
    /\ UNCHANGED bankVars
    /\ \E s \in SiteIds : wpc[s] = "panicked"
    /\ exit' = "panic"
    /\ UNCHANGED << mainVars, stdout, collectorVars, workerVars, lookupVars >>

\* ------------------------------------------------- nested currency goroutine
\* FetchCurrencyRate as it would be if the nested goroutine called
\* currencyWait.Done() before it assigned currencyRatio and currencyError.
FetchCurrencyRateDoneFirst(s) ==
    /\ Running /\ lpc[s] = "fetching"
    /\ UNCHANGED chanVars
    /\ UNCHANGED bankVars
    /\ IF currencyWait[s] > 0
       THEN /\ currencyWait' = [currencyWait EXCEPT ![s] = @ - 1]
            /\ UNCHANGED << lpc, currencyRatio, currencyError >>
       ELSE /\ \E res \in RateResults(DefaultCurrencyID(s)) :
                /\ currencyRatio' = [currencyRatio EXCEPT ![s] = res.ratio]
                /\ currencyError' = [currencyError EXCEPT ![s] = res.err]
            /\ lpc' = [lpc EXCEPT ![s] = "done"]
            /\ UNCHANGED currencyWait
    /\ UNCHANGED << exit, mainVars, stdout, collectorVars, workerVars >>

\* mercadolibre.go:221-224 with fetchCurrencyRate (163-198): the goroutine
\* writes currencyRatio and currencyError, then its deferred currencyWait.Done().
FetchCurrencyRate(s) ==
    /\ Running /\ lpc[s] = "fetching"
    /\ UNCHANGED chanVars
    /\ UNCHANGED bankVars
    /\ \E res \in RateResults(DefaultCurrencyID(s)) :
        /\ currencyRatio' = [currencyRatio EXCEPT ![s] = res.ratio]
        /\ currencyError' = [currencyError EXCEPT ![s] = res.err]
    /\ currencyWait' = [currencyWait EXCEPT ![s] = @ - 1]
    /\ lpc' = [lpc EXCEPT ![s] = "done"]
    /\ UNCHANGED << exit, mainVars, stdout, collectorVars, workerVars >>

\* ------------------------------------------- result-processing goroutine
\* IsFailure as it would be if the error of an outcome were not looked at.
IsFailureNever(v) == FALSE

\* main.go:55: r.err != nil
IsFailure(v) == v.err # "nil"

\* The line main.go:56 prints for a failed site. The line names the site; the
\* text of its error is not kept.
FailureLine(v) == [kind |-> "failed", site |-> v.site]

\* Handle as it would be if the break of main.go:57 left the for loop.
HandleStopsOnFailure ==
    /\ Running /\ cpc = "handle"
    /\ UNCHANGED chanVars
    /\ UNCHANGED bankVars
    /\ IF IsFailure(r)
       THEN /\ stdout' = Append(stdout, FailureLine(r))
            /\ UNCHANGED results
            /\ cpc' = "returned"
       ELSE /\ results' = Append(results, r)
            /\ UNCHANGED stdout
            /\ cpc' = "select"
    /\ r' = ZeroResult
    /\ UNCHANGED << exit, mainVars, workerVars, lookupVars >>

\* Handle as it would be if line 59 assigned results instead of appending.
HandleOverwrites ==
    /\ Running /\ cpc = "handle"
    /\ UNCHANGED chanVars
    /\ UNCHANGED bankVars
    /\ IF IsFailure(r)
       THEN /\ stdout' = Append(stdout, FailureLine(r))
            /\ UNCHANGED results
            /\ cpc' = "select"
       ELSE /\ results' = << r >>
            /\ UNCHANGED stdout
            /\ cpc' = "select"
    /\ r' = ZeroResult
    /\ UNCHANGED << exit, mainVars, workerVars, lookupVars >>

\* Handle as it would be if line 59 put the result in front.
HandlePrepends ==
    /\ Running /\ cpc = "handle"
    /\ UNCHANGED chanVars
    /\ UNCHANGED bankVars
    /\ IF IsFailure(r)
       THEN /\ stdout' = Append(stdout, FailureLine(r))
            /\ UNCHANGED results
            /\ cpc' = "select"
       ELSE /\ results' = << r >> \o results
            /\ UNCHANGED stdout
            /\ cpc' = "select"
    /\ r' = ZeroResult
    /\ UNCHANGED << exit, mainVars, workerVars, lookupVars >>

\* main.go:55-59: a failure is printed, anything else is appended to results;
\* then the loop is back at its select.
Handle ==
    /\ Running /\ cpc = "handle"
    /\ UNCHANGED chanVars
    /\ UNCHANGED bankVars
    /\ IF IsFailure(r)
       THEN /\ stdout' = Append(stdout, FailureLine(r))
            /\ UNCHANGED results
       ELSE /\ results' = Append(results, r)
            /\ UNCHANGED stdout
    /\ r' = ZeroResult
    /\ cpc' = "select"
    /\ UNCHANGED << exit, mainVars, workerVars, lookupVars >>

\* main.go:54 on a resultChannel that has a buffer: the select takes the
\* oldest buffered value.
BufferedReceive ==
    /\ Running /\ cpc = "select"
    /\ buffer # <<>>
    /\ r' = Head(buffer)
    /\ buffer' = Tail(buffer)
    /\ cpc' = "handle"
    /\ UNCHANGED << exit, mainVars, stdout, results, workerVars, lookupVars, chanCap >>
    /\ UNCHANGED bankVars

\* main.go:60-62: ctx is cancelled; waitResultFetch.Done() and return.
Stop ==
    /\ Running /\ cpc = "select"
    /\ UNCHANGED chanVars
    /\ UNCHANGED bankVars
    /\ ctxDone
    /\ waitResultFetch' = waitResultFetch - 1
    /\ cpc' = "returned"
    /\ UNCHANGED sitesErr
    /\ UNCHANGED << exit, mainPc, sites, next, wg, ctxDone, stdout, r, results >>
    /\ UNCHANGED << workerVars, lookupVars >>

\* ------------------------------------------------------------ specification
Next ==
    \/ FetchSitesFail
    \/ FetchSitesOk
    \/ Spawn
    \/ StartCollector
    \/ WgWait
    \/ Done
    \/ WaitResultFetch
    \/ PrintResults
    \/ \E s \in SiteIds : WorkerStart(s)
    \/ \E s \in SiteIds : QueryML(s)
    \/ \E s \in SiteIds : CurrencyWait(s)
    \/ \E s \in SiteIds : Send(s)
    \/ \E s \in SiteIds : DeferredDone(s)
    \/ \E s \in SiteIds : FetchCurrencyRate(s)
    \/ Crash
    \/ Handle
    \/ Stop

Spec == Init /\ [][Next]_vars

\* Every network call returns and the Go scheduler runs every goroutine that
\* can run; a sender blocked on resultChannel is served whenever the receiver
\* keeps coming back to its select.
Fairness ==
    /\ WF_vars(FetchSitesFail \/ FetchSitesOk \/ Spawn \/ StartCollector \/ WgWait
                \/ Done \/ WaitResultFetch \/ PrintResults)
    /\ WF_vars(Handle \/ Stop)
    /\ WF_vars(Crash)
    /\ \A s \in SiteIds :
        /\ WF_vars(WorkerStart(s) \/ QueryML(s) \/ CurrencyWait(s) \/ DeferredDone(s))
        /\ SF_vars(Send(s))
        /\ WF_vars(FetchCurrencyRate(s))

FairSpec == Spec /\ Fairness

\* The program with resultChannel made with a capacity of 0..MaxCap and
\* everything else as it is.
NextAnyCap ==
    \/ Next
    \/ \E s \in SiteIds : BufferedSend(s)
    \/ BufferedReceive

AnyCapSpec == InitAnyCap /\ [][NextAnyCap]_vars

\* -------------------------------------------------------------- dolarizame
\* part_000:17-20: http.Get(bnaURL); a failed request returns an error.
BankGet ==
    /\ bpc = "get"
    /\ \E res \in Responses :
        /\ bres' = res
        /\ IF res.kind = "failed"
           THEN /\ bret' = Return(Zero, "getting bna website")
                /\ bpc' = "returned"
           ELSE /\ bpc' = "status"
                /\ UNCHANGED bret
    /\ UNCHANGED << brow, bcell, dollar, buy, sell >>
    /\ UNCHANGED programVars

\* part_000:23-25: a status other than 200 returns an error.
BankCheckStatus ==
    /\ bpc = "status"
    /\ IF bres.kind = "status"
       THEN /\ bret' = Return(Zero, "codigo de estado de la peticion inesperado")
            /\ bpc' = "returned"
       ELSE /\ bpc' = "read"
            /\ UNCHANGED bret
    /\ UNCHANGED << bres, brow, bcell, dollar, buy, sell >>
    /\ UNCHANGED programVars

\* part_000:57-60: goquery.NewDocumentFromReader; a body that cannot be read
\* returns an error, otherwise the scan of lines 63-65 begins at the first td
\* of the first row.
BankReadDocument ==
    /\ bpc = "read"
    /\ IF bres.kind = "unreadable"
       THEN /\ bret' = Return(Zero, "reading site body")
            /\ bpc' = "returned"
            /\ UNCHANGED << brow, bcell >>
       ELSE /\ bpc' = "scan"
            /\ brow' = 1 /\ bcell' = 1
            /\ UNCHANGED bret
    /\ UNCHANGED << bres, dollar, buy, sell >>
    /\ UNCHANGED programVars

\* part_000:33-55 called by lines 63-65 on one td: i is the index of the td
\* in its row, and dollar, buy and sell are shared by all the calls.
ExtractUSD ==
    /\ bpc = "scan" /\ brow <= Len(bres.page)
    /\ LET innerS == bres.page[brow][bcell]
           i      == bcell - 1
       IN  IF innerS.tit /\ innerS.text = USD
           THEN /\ dollar' = TRUE
                /\ UNCHANGED << buy, sell >>
           ELSE /\ buy' = IF dollar /\ i = 1 THEN innerS.text ELSE buy
                /\ sell' = IF dollar /\ i = 2 THEN innerS.text ELSE sell
                /\ dollar' = IF dollar /\ i = 2 THEN FALSE ELSE dollar
    /\ IF bcell < Len(bres.page[brow])
       THEN bcell' = bcell + 1 /\ UNCHANGED brow
       ELSE bcell' = 1 /\ brow' = brow + 1
    /\ UNCHANGED << bpc, bres, bret >>
    /\ UNCHANGED programVars

\* part_000:69-84: the commas become points, sell and then buy are parsed, an
\* error of either is returned; otherwise ars is divided by the mean of the
\* two, and Div panics if that mean is zero.
BankConvert ==
    /\ bpc = "scan" /\ brow > Len(bres.page)
    /\ sell' = ReplaceCommas(sell)
    /\ buy' = ReplaceCommas(buy)
    /\ IF NewFromStringFails(sell')
       THEN /\ bret' = Return(Zero, "no se puede convertir el valor de venta a Decimal")
            /\ bpc' = "returned"
       ELSE IF NewFromStringFails(buy')
       THEN /\ bret' = Return(Zero, "no se puede convertir el valor de compra a Decimal")
            /\ bpc' = "returned"
       ELSE LET numericSell  == NewFromString(sell')
                numericBuy   == NewFromString(buy')
                numericTotal == Add(numericBuy, numericSell)
                mean         == Div(numericTotal, NewFromFloat(Float(20, 1)))
            IN  IF DivPanics(ArsAmount, mean)
                THEN /\ bpc' = "panicked"
                     /\ UNCHANGED bret
                ELSE /\ bret' = Return(Div(ArsAmount, mean), "nil")
                     /\ bpc' = "returned"
    /\ UNCHANGED << bres, brow, bcell, dollar >>
    /\ UNCHANGED programVars

BankNext ==
    \/ BankGet
    \/ BankCheckStatus
    \/ BankReadDocument
    \/ ExtractUSD
    \/ BankConvert

\* One call of dolarizame.
BankSpec == Init /\ [][BankNext]_vars

\* ------------------------------------------------------------------ claims
\* The sites the result-processing goroutine has received an outcome of, in
\* results, on stdout as failed, or in its hands.
ReceivedSites ==
    [k \in 1..Len(results) |-> results[k].site]
    \o [k \in 1..Len(SelectSeq(stdout, LAMBDA l : l.kind = "failed")) |->
            SelectSeq(stdout, LAMBDA l : l.kind = "failed")[k].site]
    \o (IF cpc = "handle" THEN << r.site >> ELSE << >>)

ReceivedOf(s) == Cardinality({ k \in 1..Len(ReceivedSites) : ReceivedSites[k] = s })

\* The entries of results for site s.
EntriesOf(s) == { k \in 1..Len(results) : results[k].site = s }

\* The worker of site s has left queryForSite, by return or by panic.
Left(s) == wpc[s] \in {"returned", "panicked"}

\* The worker of site s was or will be started and has a send ahead of it.
SendAhead(s) ==
    \/ s <= sites /\ wpc[s] = "none"
    \/ wpc[s] \in {"start", "query", "currencyWait", "send"}

\* C1: when the result-processing goroutine honors the stop signal it has
\* received exactly one outcome of each of the N spawned workers.
C1_AllReceivedAtStop ==
    cpc = "returned" =>
        /\ Len(ReceivedSites) = sites
        /\ \A s \in 1..sites : ReceivedOf(s) = 1

\* C2: a worker that has left queryForSite has sent exactly one outcome, and no
\* worker ever sends more than one.
C2_ExactlyOneSend ==
    \A s \in SiteIds :
        /\ sent[s] <= 1
        /\ Left(s) => sent[s] = 1

\* C3: done() is issued, and ctx is cancelled, only in states where no worker
\* has a send on resultChannel pending or still to perform.
C3_StopAfterSends ==
    (mainPc = "done" \/ ctxDone) => \A s \in SiteIds : ~SendAhead(s)

\* Two workers, one of them failing, have sent and ctx is cancelled.
C3_Witness ==
    /\ ctxDone
    /\ sites >= 2
    /\ \A s \in 1..sites : sent[s] = 1
    /\ \E s \in 1..sites : search[s] = "error"

\* C4: under fair scheduling, once the sites are discovered main eventually
\* gets past wg.Wait and the stop acknowledgment to its output stage.
C4_ReachesOutput == (mainPc = "spawn") ~> (mainPc \in {"print", "returned"})

\* C5: when a worker has left queryForSite, its nested currency goroutine has
\* finished.
C5_LookupJoined == \A s \in SiteIds : Left(s) => lpc[s] = "done"

\* C6: results changes only in a step of the result-processing goroutine, never
\* after it acknowledged the stop, and main is at or past its read of results
\* only when that goroutine has acknowledged.
C6_ResultsOwnership ==
    /\ [][results' # results => (cpc = "handle" /\ cpc' = "select")]_vars
    /\ [][cpc = "returned" => (cpc' = "returned" /\ results' = results)]_vars
    /\ [](mainPc \in {"print", "returned"} => cpc = "returned")

\* main is about to read results, which hold an entry, after the acknowledgment.
C6_Witness == mainPc = "print" /\ cpc = "returned" /\ Len(results) >= 1

\* C7: results never holds an entry for a site whose search failed or came
\* back empty, whatever its currency goroutine did or is still doing.
C7_FailedSearchNoEntry ==
    \A s \in SiteIds : search[s] \in {"error", "empty"} => EntriesOf(s) = {}

\* main has printed; the search of one site failed with its currency goroutine
\* still running, and another site is in results.
C7_Witness ==
    /\ mainPc = "returned"
    /\ Len(results) >= 1
    /\ \E s \in 1..sites : search[s] = "error" /\ lpc[s] = "fetching"

\* C8: a worker whose well-formed response has an empty result list goes on to
\* send an outcome with err set, and what it sends is never taken for a result.
C8_EmptyIsFailure ==
    \A s \in SiteIds : search[s] = "empty" =>
        /\ wpc[s] \in {"send", "deferred", "returned"}
        /\ wpc[s] = "send" => wout[s].err = "results not found in response"
        /\ (cpc = "handle" /\ r.site = s) => r.err = "results not found in response"
        /\ EntriesOf(s) = {}

\* The outcome of an empty result list has reached the result-processing
\* goroutine.
C8_Witness ==
    \E s \in SiteIds :
        /\ search[s] = "empty"
        /\ cpc = "handle" /\ r.site = s
        /\ r.err = "results not found in response"

\* C9: no worker ever panics and the process is never ended by a panic.
C9_NeverPanics ==
    /\ exit # "panic"
    /\ \A s \in SiteIds : wpc[s] \notin {"panicking", "panicked"}

\* The site's search and its currency lookup both succeeded.
BothSucceeded(s) ==
    search[s] = "listing" /\ lpc[s] = "done" /\ currencyError[s] = "nil"

\* C10: at the output stage every site whose search and currency lookup both
\* succeeded has exactly one entry in results, and results has no other entry.
C10_SuccessesAllListed ==
    mainPc \in {"print", "returned"} =>
        /\ \A s \in 1..sites : BothSucceeded(s) => Cardinality(EntriesOf(s)) = 1
        /\ Len(results) = Cardinality({ s \in 1..sites : BothSucceeded(s) })

\* C11: when fetchSites fails the process ends fatally with no queryForSite
\* goroutine, no currency goroutine and no result-processing goroutine
\* started, and nothing printed.
C11_DiscoveryFailureIsFatal ==
    sitesErr # "nil" =>
        /\ exit = "fatal"
        /\ \A s \in SiteIds : wpc[s] = "none" /\ lpc[s] = "none"
        /\ cpc = "none"
        /\ results = <<>> /\ stdout = <<>>

\* fetchSites failed on reading the body and the process has ended.
C11_Witness == sitesErr = "reading mercado libre sites list body" /\ exit = "fatal"

\* A worker is sending the result of a search and a currency lookup that
\* both succeeded.
SendingSuccess(s) == wpc[s] = "send" /\ wout[s].err = "nil"

\* C12: in a result a worker sends, a listing in USD gives priceUSD = its price
\* and price = priceUSD / ratio, any other listing gives price = its price and
\* priceUSD = price * ratio, and ratio is the ratio the currency goroutine
\* fetched.
C12_PriceNormalization ==
    \A s \in SiteIds : SendingSuccess(s) =>
        LET m == resultML[s][1]
            o == wout[s]
        IN  /\ o.ratio = currencyRatio[s]
            /\ IF m.CurrencyID = "USD"
               THEN /\ o.priceUSD = NewFromFloat(m.Price)
                    /\ o.price = Div(o.priceUSD, o.ratio)
               ELSE /\ o.price = NewFromFloat(m.Price)
                    /\ o.priceUSD = Mul(o.price, o.ratio)

\* Two workers are sending results, one of a listing in USD and one of a
\* listing in another currency.
C12_Witness ==
    \E s, t \in SiteIds :
        /\ SendingSuccess(s) /\ resultML[s][1].CurrencyID = "USD"
        /\ SendingSuccess(t) /\ resultML[t][1].CurrencyID # "USD"

\* The smallest of three exponents.
MinExp(a, b, c) ==
    IF a <= b /\ a <= c THEN a ELSE IF b <= c THEN b ELSE c

\* price * ratio - priceUSD of a result, and ratio / 10^DivisionPrecision, both
\* counted in units of 10^e, e being the smallest exponent in play.
RoundTripError(o) ==
    LET ea == o.price.exp + o.ratio.exp
        eb == o.priceUSD.exp
        et == o.ratio.exp - DivisionPrecision
        e  == MinExp(ea, eb, et)
    IN  o.price.coef * o.ratio.coef * Pow10(ea - e) - o.priceUSD.coef * Pow10(eb - e)

RoundTripUnit(o) ==
    LET ea == o.price.exp + o.ratio.exp
        eb == o.priceUSD.exp
        et == o.ratio.exp - DivisionPrecision
        e  == MinExp(ea, eb, et)
    IN  o.ratio.coef * Pow10(et - e)

\* C13: in a result a worker sends, price * ratio is priceUSD exactly for a
\* listing in another currency, and for a listing in USD it differs from
\* priceUSD by at most half a unit of the last digit Div keeps, times ratio.
C13_RoundTrip ==
    \A s \in SiteIds : SendingSuccess(s) =>
        LET d == RoundTripError(wout[s])
        IN  IF resultML[s][1].CurrencyID = "USD"
            THEN 2 * (IF d < 0 THEN 0 - d ELSE d) <= RoundTripUnit(wout[s])
            ELSE d = 0

\* A worker is sending the result of a listing in USD whose division was not
\* exact.
C13_Witness ==
    \E s \in SiteIds :
        /\ SendingSuccess(s) /\ resultML[s][1].CurrencyID = "USD"
        /\ RoundTripError(wout[s]) # 0

\* C14: callerWaiting.Done() of a worker has run only if the result-processing
\* goroutine has received the outcome of that worker, and main is past wg.Wait
\* only if no worker is blocked in its send.
C14_DoneAfterReceived ==
    /\ \A s \in SiteIds : Left(s) => ReceivedOf(s) = 1
    /\ mainPc \in {"done", "waitResultFetch", "print", "returned"} =>
           \A s \in SiteIds : wpc[s] # "send"

\* Every outcome a worker has sent, or is blocked sending, has been received.
NothingUnread ==
    /\ buffer = <<>>
    /\ \A s \in SiteIds : (sent[s] >= 1 \/ wpc[s] = "send") => ReceivedOf(s) = 1

\* C15: whatever the capacity of resultChannel, when the result-processing
\* goroutine stops every outcome sent has been received.
C15_NoLossAnyCapacity == cpc = "returned" => NothingUnread

\* C15, for the resultChannel of main.go:34 only: with the unbuffered channel,
\* when the result-processing goroutine stops every outcome sent has been
\* received.
C15_NoLossUnbuffered == (chanCap = 0 /\ cpc = "returned") => NothingUnread

\* The result-processing goroutine has stopped after receiving the outcomes of
\* two workers over the unbuffered channel.
C15_Witness ==
    /\ chanCap = 0 /\ cpc = "returned"
    /\ sites >= 2
    /\ \A s \in 1..sites : sent[s] = 1 /\ ReceivedOf(s) = 1

\* C16: a worker whose search failed (an error, or an empty list of results)
\* has its failure ready to send at once:
\* whatever the state of its currency lookup, the send can happen as soon as
\* the result-processing goroutine is at its select, and the worker can then
\* return.
C16_FailureSendDoesNotWait ==
    \A s \in SiteIds : (Running /\ search[s] \in {"error", "empty"}) =>
        /\ wpc[s] \in {"send", "deferred", "returned"}
        /\ wpc[s] = "send" => wout[s].site = s /\ IsFailure(wout[s])
        /\ (wpc[s] = "send" /\ cpc = "select") => ENABLED Send(s)
        /\ wpc[s] = "deferred" => ENABLED DeferredDone(s)

\* A worker whose search failed has sent its failure and returned while its
\* currency lookup is still running.
C16_Witness ==
    \E s \in SiteIds :
        /\ search[s] = "error" /\ wpc[s] = "returned" /\ sent[s] = 1
        /\ lpc[s] = "fetching"

\* C17: a worker whose search found a listing has no outcome before its
\* currency lookup is done; the outcome is a failure if the lookup failed and
\* otherwise a success with the ratio the lookup returned.
C17_SuccessWaitsForLookup ==
    \A s \in SiteIds : search[s] = "listing" =>
        /\ (wpc[s] \in {"send", "deferred", "returned"} \/ sent[s] >= 1)
                => lpc[s] = "done"
        /\ wpc[s] = "send" =>
                IF currencyError[s] # "nil"
                THEN wout[s] = Failure(s, "getting currency ratio")
                ELSE wout[s].err = "nil" /\ wout[s].ratio = currencyRatio[s]
        /\ \A k \in EntriesOf(s) :
                currencyError[s] = "nil" /\ results[k].ratio = currencyRatio[s]

\* One worker is sending the failure of its currency lookup, and the success
\* of another is in results.
C17_Witness ==
    \E s, t \in SiteIds :
        /\ search[s] = "listing" /\ wpc[s] = "send" /\ currencyError[s] # "nil"
        /\ search[t] = "listing" /\ EntriesOf(t) # {}

\* C18: the result-processing goroutine appends what it received to results
\* exactly when it is a success; a failure is printed with its site and
\* leaves results alone; either way the goroutine is back at its select.
C18_AppendsIffSuccess ==
    [][ /\ (cpc = "handle" /\ cpc' # "handle") =>
            /\ cpc' = "select"
            /\ IF r.err # "nil"
               THEN /\ results' = results
                    /\ stdout' = Append(stdout, [kind |-> "failed", site |-> r.site])
               ELSE /\ results' = Append(results, r)
                    /\ stdout' = stdout
        /\ results' # results => (cpc = "handle" /\ r.err = "nil") ]_vars

\* A failure has been printed and the goroutine has afterwards received a
\* success.
C18_Witness ==
    /\ \E k \in 1..Len(stdout) : stdout[k].kind = "failed"
    /\ cpc = "handle" /\ r.err = "nil"

\* C19: results holds successes only and never more than one per site, and
\* every step leaves what it held in place, at most adding to its end.
C19_AppendOnly ==
    /\ [](/\ \A k \in 1..Len(results) : results[k].err = "nil"
          /\ Len(results) <= sites)
    /\ [][ /\ Len(results') >= Len(results)
           /\ \A k \in 1..Len(results) : results'[k] = results[k] ]_vars

\* results holds two successes.
C19_Witness == Len(results) = 2 /\ results[1] # results[2]

\* The sites of results, in its order.
ResultOrder == [k \in 1..Len(results) |-> results[k].site]

\* C20: the order of results is the order of arrival: nothing received is
\* pending when the next outcome is received, an outcome received is not yet
\* in results, and results only changes by taking the outcome just received
\* at its end.
C20_ArrivalOrder ==
    [][ /\ (cpc = "select" /\ cpc' = "handle") =>
            /\ results' = results
            /\ \A k \in 1..Len(results) : results[k].site # r'.site
        /\ results' # results =>
            /\ cpc = "handle"
            /\ ResultOrder' = ResultOrder \o << r.site >> ]_vars

\* The final results hold the sites in the reverse of the order in which
\* their workers were started.
C20_Witness ==
    /\ cpc = "returned" /\ mainPc = "returned"
    /\ ResultOrder = << 2, 1 >>

\* C21: a worker starts its currency lookup once, when it starts and before
\* its search is issued: a worker past its start has a lookup, the lookup
\* begins only in the step that takes the worker to its search, and a lookup
\* that began is never begun again.
C21_LookupStartedBeforeQuery ==
    /\ [](\A s \in SiteIds :
            /\ wpc[s] \in {"none", "start"} => lpc[s] = "none"
            /\ wpc[s] \notin {"none", "start"} => lpc[s] \in {"fetching", "done"}
            /\ currencyWait[s] = (IF lpc[s] = "fetching" THEN 1 ELSE 0))
    /\ [][ \A s \in SiteIds :
            /\ lpc'[s] # lpc[s] =>
                  \/ /\ lpc[s] = "none" /\ lpc'[s] = "fetching"
                     /\ wpc[s] = "start" /\ wpc'[s] = "query"
                     /\ search[s] = "none"
                  \/ lpc[s] = "fetching" /\ lpc'[s] = "done"
            /\ (wpc[s] = "query" /\ wpc'[s] # "query") => lpc'[s] = lpc[s] ]_vars

\* The search of a worker is in flight while its currency lookup is.
C21_Witness ==
    \E s \in SiteIds : wpc[s] = "query" /\ search[s] = "none" /\ lpc[s] = "fetching"

\* The price of the listing as a result carries it: in priceUSD for a listing
\* in USD, in price for any other.
ListingPrice(m, o) == IF m.CurrencyID = usdCurrencyCode THEN o.priceUSD ELSE o.price

\* C22: the result a worker sends carries the title and the price of the first
\* entry of the list the endpoint answered, whatever comes after it.
C22_FirstEntry ==
    \A s \in SiteIds : SendingSuccess(s) =>
        /\ Len(resultML[s]) >= 1
        /\ wout[s].item = resultML[s][1].Title
        /\ ListingPrice(resultML[s][1], wout[s]) = NewFromFloat(resultML[s][1].Price)

\* A worker is sending the result of a list of two entries that differ in
\* title and price.
C22_Witness ==
    \E s \in SiteIds :
        /\ SendingSuccess(s) /\ Len(resultML[s]) = 2
        /\ resultML[s][1].Title # resultML[s][2].Title
        /\ resultML[s][1].Price # resultML[s][2].Price
        /\ wout[s].item = resultML[s][1].Title

\* The workers of the run that have not left queryForSite, started or not.
NotLeft == { s \in 1..sites : ~Left(s) }

\* C23: once main has added the number of sites to wg, wg is the number of
\* workers that have not left queryForSite, so it is never negative and is 0
\* exactly when all have left; wg changes only by that addition and by 1 in
\* the step in which one worker leaves, and every leaving takes 1 off.
C23_WaitGroupCounts ==
    /\ [](/\ wg >= 0
          /\ mainPc = "fetchSites" => wg = 0
          /\ mainPc # "fetchSites" => wg = Cardinality(NotLeft))
    /\ [][ /\ (mainPc = "fetchSites" /\ mainPc' = "spawn") => wg' = sites'
           /\ \A s \in SiteIds : (~Left(s) /\ Left(s)') => wg' = wg - 1
           /\ (wg' # wg /\ mainPc # "fetchSites") =>
                \E s \in SiteIds : ~Left(s) /\ Left(s)' ]_vars

\* Two workers have left, one by return and one by panic, and wg is 0.
C23_Witness ==
    /\ sites >= 2 /\ wg = 0
    /\ \E s, t \in 1..sites : wpc[s] = "returned" /\ wpc[t] = "panicked"

\* C24: currencyRatio and currencyError of a worker are written in one step,
\* the one that ends its currency lookup; the worker gets past
\* currencyWait.Wait(), where its reads of them begin, only when that step has
\* been taken, and a worker whose search failed never gets to the reads.
C24_NoRaceOnCurrency ==
    /\ [](\A s \in SiteIds :
            /\ search[s] \in {"error", "empty"} =>
                  wpc[s] \notin {"currencyWait", "panicking", "panicked"}
            /\ lpc[s] # "done" => currencyRatio[s] = Zero /\ currencyError[s] = "nil")
    /\ [][ \A s \in SiteIds :
            /\ (wpc[s] = "currencyWait" /\ wpc'[s] # "currencyWait") =>
                  /\ lpc[s] = "done"
                  /\ currencyRatio'[s] = currencyRatio[s]
                  /\ currencyError'[s] = currencyError[s]
            /\ (currencyRatio'[s] # currencyRatio[s] \/ currencyError'[s] # currencyError[s]) =>
                  lpc[s] = "fetching" /\ lpc'[s] = "done" ]_vars

\* One worker has read the ratio its lookup wrote and is sending it, and
\* another left on an empty list while its lookup is still running.
C24_Witness ==
    \E s, t \in SiteIds :
        /\ search[s] = "listing" /\ SendingSuccess(s)
        /\ wout[s].ratio # Zero /\ wout[s].ratio = currencyRatio[s]
        /\ search[t] = "empty" /\ wpc[t] = "returned" /\ lpc[t] = "fetching"

\* fetchSites returned an empty list of sites without error.
NoSites == sitesErr = "nil" /\ mainPc # "fetchSites" /\ sites = 0

\* C25: with an empty list of sites wg.Wait() can return as soon as main
\* reaches it, the result-processing goroutine never receives anything, and
\* the run comes to its normal end with the goroutine stopped, results empty
\* and nothing printed.
C25_ZeroSitesTerminates ==
    /\ [](NoSites =>
            /\ wg = 0
            /\ cpc \in {"none", "select", "returned"}
            /\ results = <<>> /\ stdout = <<>>
            /\ exit \in {"running", "ok"}
            /\ mainPc = "wgWait" => ENABLED WgWait)
    /\ (NoSites ~> (/\ exit = "ok" /\ mainPc = "returned"
                    /\ cpc = "returned" /\ waitResultFetch = 0
                    /\ results = <<>> /\ stdout = <<>>))

\* A run with no sites has ended normally.
C25_Witness ==
    NoSites /\ exit = "ok" /\ mainPc = "returned" /\ cpc = "returned" /\ results = <<>>

\* The text is a number once its commas are points.
NumericText(t) == ~NewFromStringFails(ReplaceCommas(t))

\* The page has a row titled 'Dolar U.S.A' with a buying and a selling rate
\* after the title, both numbers.
DollarRowYieldsBoth(p) ==
    \E k \in 1..Len(p) :
        /\ p[k][1] = Td(TRUE, USD)
        /\ Len(p[k]) >= 3
        /\ NumericText(p[k][2].text) /\ NumericText(p[k][3].text)

\* C26: when the request failed, the status was not 200, the document could
\* not be read, or the page has no row of the dollar with both rates,
\* dolarizame returns an error and decimal.Zero.
C26_BankErrors ==
    (/\ bpc \in {"returned", "panicked"}
     /\ bres.kind # "page" \/ ~DollarRowYieldsBoth(bres.page))
        => (bpc = "returned" /\ bret.err # "nil" /\ bret.amount = Zero)

====
